---- MODULE Spec2Model ----
(***************************************************************************)
(* Model of the client-side player store of mediacore-frontend             *)
(* (src/src/store/playerStore.js): the "now playing" cursor over a queue,  *)
(* the transport flags and the bounded, deduplicated play history.         *)
(*                                                                         *)
(* JavaScript arrays are 0-based; queueIndex keeps the 0-based value of    *)
(* the source and At(q, i) reads the i-th element of a sequence the way    *)
(* q[i] does in JavaScript (Null stands for undefined / null).             *)
(*                                                                         *)
(* Around the store: the seek state of the MiniPlayer, the restriction     *)
(* effect of the subscription provider, and the journal (the entry page    *)
(* src/src/pages/JournalEntry.jsx over src/src/store/journalStore.js).     *)
(***************************************************************************)
EXTENDS Integers, Sequences, FiniteSets, TLC

VARIABLES currentTrack, queue, queueIndex,
          isPlaying, isLoading, duration, currentTime,
          volume, isMuted, isShuffled, repeatMode,
          isVideoMode, isMiniPlayerVisible,
          history,
          now, lastOp,
          storage,
          seeking, seekValue,
          showTimeLimitModal, showLoginModal, showLanguageRestrictionModal,
          effectDeps,
          routeId, entry, entries, pendingSave, inflight,
          entriesCreated, mediaCreated

vars == <<currentTrack, queue, queueIndex, isPlaying, isLoading, duration,
          currentTime, volume, isMuted, isShuffled, repeatMode, isVideoMode,
          isMiniPlayerVisible, history, now, lastOp, storage,
          seeking, seekValue, showTimeLimitModal, showLoginModal,
          showLanguageRestrictionModal, effectDeps, routeId, entry,
          entries, pendingSave, inflight, entriesCreated, mediaCreated>>

playback == <<isPlaying, isLoading, duration, currentTime>>
prefs    == <<volume, isMuted, isShuffled, repeatMode>>

\* state kept outside the player store: the MiniPlayer's seek state, the
\* subscription modals with the dependencies the restriction effect last
\* ran with, and the journal: the route parameter and the entry of the
\* entry page, the entries of the journal store, the waiting auto-saves, the
\* store calls waiting for IndexedDB, and the numbers of entry and media
\* ids generated
seek    == <<seeking, seekValue>>
modals  == <<showTimeLimitModal, showLoginModal, showLanguageRestrictionModal>>
journal == <<routeId, entry, entries, pendingSave, inflight, entriesCreated,
             mediaCreated>>
outside == <<seek, modals, effectDeps, journal>>

----------------------------------------------------------------------------
(* Bounds of the model *)

NumIds   == 2      \* track ids 1..NumIds
MaxQueue == 2      \* longest queue handed to setQueue / playTrack
MaxClock == 2      \* the wall clock takes the values 0..MaxClock
CapRun   == 103    \* number of insertions of the history-cap run
SeqLen   == 3      \* longest album of the album session
MaxWaiting == 2    \* most debounced saves waiting when the journal page mounts
MaxMedia == 1      \* number of media ids addMedia generates
MaxEntries == 2    \* number of entry ids createEntry generates
LogIds == 4        \* track ids 1..LogIds of the history-order session
MaxInflight == 1   \* most store calls waiting for IndexedDB

(* Program constants *)

HistoryCap       == 100  \* .slice(0, 100) in addToHistory
RestartThreshold == 3    \* currentTime > 3 in playPrevious
DefaultVolume    == 80   \* volume: 0.8, in percent
DefaultMood      == 50   \* mood: { value: 50, emotions: [] } in createEntry

----------------------------------------------------------------------------
(* Values *)

Ids   == 1..NumIds
Types == {"video", "audio"}

\* null / undefined, shaped like a track so that it compares with one
Null == [id |-> 0, type |-> "none"]

\* every track object a caller can hold: the same id may come with
\* different field values (a stale copy, a history record played again)
Tracks == [id : Ids, type : Types]

\* the media list of the content API: one object per id
MediaItem(i) == [id |-> i, type |-> IF i % 2 = 1 THEN "video" ELSE "audio"]
Catalog == {MediaItem(i) : i \in Ids}

RECURSIVE SeqsUpTo(_, _)
SeqsUpTo(S, n) ==
    IF n = 0 THEN {<< >>}
    ELSE LET shorter == SeqsUpTo(S, n - 1)
         IN  shorter \cup {Append(s, x) : s \in {t \in shorter : Len(t) = n - 1}, x \in S}

\* every array of media items, repetitions included
Queues       == SeqsUpTo(Catalog, MaxQueue)

\* the lists the pages play from: the first k items of the media list
\* (the list starts over when k exceeds the number of items)
Playlist(k)  == [i \in 1..k |-> MediaItem(((i - 1) % NumIds) + 1)]
Playlists    == {Playlist(k) : k \in 0..MaxQueue}
StartIndexes == -1..MaxQueue
Times        == {0, RestartThreshold, RestartThreshold + 1}
RepeatModes  == <<"off", "all", "one">>
\* track lengths and reported positions in seconds, slider values in percent
Durations     == {0, 100, 200}
PlayedSeconds == {0, 50, 150}
SeekValues    == {0, 50, 100}
ModalKinds    == {"timeLimit", "login", "languageRestriction"}
\* titles typed and mood values chosen on the journal page
Titles        == {"a"}
Moods         == {20}
\* what the editor node holds when handleInput reads it: the typed text,
\* and the same text after the bold command
EditorNodes   == {[innerHTML |-> "a", innerText |-> "a"],
                  [innerHTML |-> "<b>a</b>", innerText |-> "a"]}
\* updates handed to autoSaveDraft
DraftUpdates  == {[field |-> "title", value |-> "a"]}
\* volumes in percent: silent, 0.5, the default 0.8, full
Volumes      == {0, 50, DefaultVolume, 100}

----------------------------------------------------------------------------
(* JavaScript helpers *)

\* mutant: the index is read one-based
AtOneBased(q, i) == IF i >= 1 /\ i <= Len(q) THEN q[i] ELSE Null

\* q[i] on an array: undefined outside 0..length-1
At(q, i) == IF i >= 0 /\ i < Len(q) THEN q[i + 1] ELSE Null

\* mutant: the last match instead of the first
findLastIndex(q, id) ==
    IF \E k \in 1..Len(q) : q[k].id = id
    THEN (CHOOSE k \in 1..Len(q) :
             q[k].id = id /\ \A j \in (k + 1)..Len(q) : q[j].id # id) - 1
    ELSE -1

\* q.findIndex(t => t.id === id): first match, -1 when there is none
findIndex(q, id) ==
    IF \E k \in 1..Len(q) : q[k].id = id
    THEN (CHOOSE k \in 1..Len(q) :
             q[k].id = id /\ \A j \in 1..(k - 1) : q[j].id # id) - 1
    ELSE -1

\* h.filter(t => t.id !== id)
filterOutId(h, id) == SelectSeq(h, LAMBDA e : e.id # id)

\* mutant: no truncation
sliceNone(a, n) == a

\* a.slice(0, n)
slice0(a, n) == IF Len(a) <= n THEN a ELSE SubSeq(a, 1, n)

\* { ...track, playedAt: new Date().toISOString() }
HistoryEntry(track, t) == [id |-> track.id, type |-> track.type, playedAt |-> t]

\* mutant: the older records come out in reverse order
addToHistoryReversed(h, track, t) ==
    LET rest == filterOutId(h, track.id)
    IN  slice0(<<HistoryEntry(track, t)>>
                 \o [k \in 1..Len(rest) |-> rest[Len(rest) + 1 - k]],
               HistoryCap)

\* mutant: the old entry is removed only when it is the same object
addToHistoryByIdentity(h, track, t) ==
    slice0(<<HistoryEntry(track, t)>>
             \o SelectSeq(h, LAMBDA e : [id |-> e.id, type |-> e.type] # track),
           HistoryCap)

\* mutant: the new record is pushed at the end
addToHistoryAppend(h, track, t) ==
    slice0(filterOutId(h, track.id) \o <<HistoryEntry(track, t)>>, HistoryCap)

\* the state update of addToHistory(track) at clock value t
addToHistory(h, track, t) ==
    slice0(<<HistoryEntry(track, t)>> \o filterOutId(h, track.id), HistoryCap)

----------------------------------------------------------------------------
(* Initial state: the store as constructed, nothing persisted yet *)

\* mutant: history is left out of the persisted part
partializeNoHistory ==
    [volume |-> volume, isMuted |-> isMuted, isShuffled |-> isShuffled,
     repeatMode |-> repeatMode, history |-> << >>]

\* partialize(state): the part of the store the persist middleware writes
\* to local storage
partialize ==
    [volume |-> volume, isMuted |-> isMuted, isShuffled |-> isShuffled,
     repeatMode |-> repeatMode, history |-> history]

\* the persist middleware writes partialize(state) after every set()
Persisted == storage' = partialize'

\* the dependencies of the provider's restriction effect that change
restrictionDeps ==
    <<showTimeLimitModal, showLoginModal, showLanguageRestrictionModal, isPlaying>>

Init ==
    /\ currentTrack = Null
    /\ queue = << >>
    /\ queueIndex = 0
    /\ isPlaying = FALSE
    /\ isLoading = FALSE
    /\ duration = 0
    /\ currentTime = 0
    /\ volume = DefaultVolume
    /\ isMuted = FALSE
    /\ isShuffled = FALSE
    /\ repeatMode = "off"
    /\ isVideoMode = TRUE
    /\ isMiniPlayerVisible = FALSE
    /\ history = << >>
    /\ now = 0
    /\ lastOp = "init"
    /\ storage = partialize
    /\ seeking = FALSE
    /\ seekValue = 0
    /\ showTimeLimitModal = FALSE
    /\ showLoginModal = FALSE
    /\ showLanguageRestrictionModal = FALSE
    /\ effectDeps = restrictionDeps
    /\ routeId = << >>
    /\ entry = << >>
    /\ entries = << >>
    /\ pendingSave = << >>
    /\ inflight = << >>
    /\ entriesCreated = 0
    /\ mediaCreated = 0

----------------------------------------------------------------------------
(* Store operations *)

\* setCurrentTrack(track), track possibly null
SetCurrentTrack(track) ==
    /\ currentTrack' = track
    /\ isMiniPlayerVisible' = (track # Null)
    /\ isLoading' = TRUE
    /\ currentTime' = 0
    /\ duration' = 0
    /\ isVideoMode' = (track.type = "video")
    /\ history' = IF track # Null THEN addToHistory(history, track, now) ELSE history
    /\ lastOp' = "setCurrentTrack"
    /\ UNCHANGED <<queue, queueIndex, isPlaying, prefs, now>>
    /\ Persisted
    /\ UNCHANGED outside

\* mutant: the current track is always the head of the queue
SetQueueHead(q, startIndex) ==
    /\ queue' = q
    /\ queueIndex' = startIndex
    /\ currentTrack' = At(q, 0)
    /\ isMiniPlayerVisible' = (Len(q) > 0)
    /\ lastOp' = "setQueue"
    /\ UNCHANGED <<playback, prefs, isVideoMode, history, now>>
    /\ Persisted
    /\ UNCHANGED outside

\* setQueue(queue, startIndex)
SetQueue(q, startIndex) ==
    /\ queue' = q
    /\ queueIndex' = startIndex
    /\ currentTrack' = At(q, startIndex)
    /\ isMiniPlayerVisible' = (Len(q) > 0)
    /\ lastOp' = "setQueue"
    /\ UNCHANGED <<playback, prefs, isVideoMode, history, now>>
    /\ Persisted
    /\ UNCHANGED outside

\* playTrack(track, queue) with a queue (any array, [] included)
PlayTrackQueue(track, q) ==
    /\ track = Null => q = << >>
    /\ LET index == findIndex(q, track.id)
       IN  /\ queue' = q
           /\ queueIndex' = (IF index >= 0 THEN index ELSE 0)
    /\ currentTrack' = track
    /\ isPlaying' = TRUE
    /\ isMiniPlayerVisible' = TRUE
    /\ history' = IF track # Null THEN addToHistory(history, track, now) ELSE history
    /\ lastOp' = "playTrack(track, queue)"
    /\ UNCHANGED <<isLoading, duration, currentTime, prefs, isVideoMode, now>>
    /\ Persisted
    /\ UNCHANGED outside

\* playTrack(null, queue) on a non-empty queue: t.id === track.id raises a
\* TypeError inside findIndex, before any set()
PlayTrackThrows(q) ==
    /\ q # << >>
    /\ lastOp' = "playTrack(null, queue): TypeError"
    /\ UNCHANGED <<currentTrack, queue, queueIndex, playback, prefs,
                   isVideoMode, isMiniPlayerVisible, history, now>>
    /\ Persisted
    /\ UNCHANGED outside

\* mutant: the cursor is rewound
PlayTrackRewind(track) ==
    /\ currentTrack' = track
    /\ queueIndex' = 0
    /\ isPlaying' = TRUE
    /\ isMiniPlayerVisible' = TRUE
    /\ history' = IF track # Null THEN addToHistory(history, track, now) ELSE history
    /\ lastOp' = "playTrack(track)"
    /\ UNCHANGED <<queue, isLoading, duration, currentTime, prefs,
                   isVideoMode, now>>
    /\ Persisted
    /\ UNCHANGED outside

\* mutant: a one-item queue is built around the track
PlayTrackImplicitQueue(track) ==
    /\ currentTrack' = track
    /\ queue' = IF track # Null THEN <<track>> ELSE << >>
    /\ queueIndex' = 0
    /\ isPlaying' = TRUE
    /\ isMiniPlayerVisible' = TRUE
    /\ history' = IF track # Null THEN addToHistory(history, track, now) ELSE history
    /\ lastOp' = "playTrack(track)"
    /\ UNCHANGED <<isLoading, duration, currentTime, prefs, isVideoMode, now>>
    /\ Persisted
    /\ UNCHANGED outside

\* playTrack(track) without a queue (null or omitted)
PlayTrackNoQueue(track) ==
    /\ currentTrack' = track
    /\ isPlaying' = TRUE
    /\ isMiniPlayerVisible' = TRUE
    /\ history' = IF track # Null THEN addToHistory(history, track, now) ELSE history
    /\ lastOp' = "playTrack(track)"
    /\ UNCHANGED <<queue, queueIndex, isLoading, duration, currentTime, prefs,
                   isVideoMode, now>>
    /\ Persisted
    /\ UNCHANGED outside

TogglePlay ==
    /\ isPlaying' = ~isPlaying
    /\ lastOp' = "togglePlay"
    /\ UNCHANGED <<currentTrack, queue, queueIndex, isLoading, duration,
                   currentTime, prefs, isVideoMode, isMiniPlayerVisible,
                   history, now>>
    /\ Persisted
    /\ UNCHANGED outside

Play ==
    /\ isPlaying' = TRUE
    /\ lastOp' = "play"
    /\ UNCHANGED <<currentTrack, queue, queueIndex, isLoading, duration,
                   currentTime, prefs, isVideoMode, isMiniPlayerVisible,
                   history, now>>
    /\ Persisted
    /\ UNCHANGED outside

Pause ==
    /\ isPlaying' = FALSE
    /\ lastOp' = "pause"
    /\ UNCHANGED <<currentTrack, queue, queueIndex, isLoading, duration,
                   currentTime, prefs, isVideoMode, isMiniPlayerVisible,
                   history, now>>
    /\ Persisted
    /\ UNCHANGED outside

\* mutant: shuffle is looked at before repeat-one
nextIndexShuffleFirst(q, qi, mode, shuffled, r) ==
    IF shuffled THEN r
    ELSE IF mode = "one" THEN qi
    ELSE IF qi + 1 >= Len(q)
         THEN (IF mode = "all" THEN 0 ELSE qi)
         ELSE qi + 1

\* mutant: shuffle steps past the index that is playing
nextIndexAvoidRepeat(q, qi, mode, shuffled, r) ==
    IF mode = "one" THEN qi
    ELSE IF shuffled THEN (IF r = qi THEN (r + 1) % Len(q) ELSE r)
    ELSE IF qi + 1 >= Len(q)
         THEN (IF mode = "all" THEN 0 ELSE qi)
         ELSE qi + 1

\* mutant: the end of the queue never wraps
nextIndexNoWrap(q, qi, mode, shuffled, r) ==
    IF mode = "one" THEN qi
    ELSE IF shuffled THEN r
    ELSE IF qi + 1 >= Len(q) THEN qi ELSE qi + 1

\* mutant: the end of the queue wraps whatever the repeat mode
nextIndexAlwaysWrap(q, qi, mode, shuffled, r) ==
    IF mode = "one" THEN qi
    ELSE IF shuffled THEN r
    ELSE IF qi + 1 >= Len(q) THEN 0 ELSE qi + 1

\* the index playNext selects; r is the value of
\* Math.floor(Math.random() * queue.length)
nextIndexOf(q, qi, mode, shuffled, r) ==
    IF mode = "one" THEN qi
    ELSE IF shuffled THEN r
    ELSE IF qi + 1 >= Len(q)
         THEN (IF mode = "all" THEN 0 ELSE qi)
         ELSE qi + 1

\* playNext()
PlayNext ==
    /\ lastOp' = "playNext"
    /\ IF Len(queue) = 0
       THEN UNCHANGED <<currentTrack, queue, queueIndex, playback, prefs,
                        isVideoMode, isMiniPlayerVisible, history, now>>
       ELSE \E r \in 0..(Len(queue) - 1) :
              LET nextIndex == nextIndexOf(queue, queueIndex, repeatMode, isShuffled, r)
                  nextTrack == At(queue, nextIndex)
              IN  IF nextTrack # Null
                  THEN /\ queueIndex' = nextIndex
                       /\ currentTrack' = nextTrack
                       /\ isPlaying' = TRUE
                       /\ history' = addToHistory(history, nextTrack, now)
                       /\ UNCHANGED <<queue, isLoading, duration, currentTime,
                                      prefs, isVideoMode, isMiniPlayerVisible, now>>
                  ELSE UNCHANGED <<currentTrack, queue, queueIndex, playback,
                                   prefs, isVideoMode, isMiniPlayerVisible,
                                   history, now>>
    /\ Persisted
    /\ UNCHANGED outside

\* the index playPrevious selects
prevIndexOf(q, qi) == IF qi > 0 THEN qi - 1 ELSE Len(q) - 1

\* mutant: the restart test comes before the empty-queue test
PlayPreviousRestartFirst ==
    /\ lastOp' = "playPrevious"
    /\ IF currentTime > RestartThreshold
       THEN /\ currentTime' = 0
            /\ UNCHANGED <<currentTrack, queue, queueIndex, isPlaying, isLoading,
                           duration, prefs, isVideoMode, isMiniPlayerVisible,
                           history, now>>
       ELSE UNCHANGED <<currentTrack, queue, queueIndex, playback, prefs,
                        isVideoMode, isMiniPlayerVisible, history, now>>
    /\ Persisted
    /\ UNCHANGED outside

\* mutant: no restart branch, previous always moves the cursor
PlayPreviousAlwaysMoves ==
    /\ lastOp' = "playPrevious"
    /\ IF Len(queue) = 0
       THEN UNCHANGED <<currentTrack, queue, queueIndex, playback, prefs,
                        isVideoMode, isMiniPlayerVisible, history, now>>
       ELSE LET prevIndex == prevIndexOf(queue, queueIndex)
                prevTrack == At(queue, prevIndex)
            IN  IF prevTrack # Null
                THEN /\ queueIndex' = prevIndex
                     /\ currentTrack' = prevTrack
                     /\ isPlaying' = TRUE
                     /\ UNCHANGED <<queue, isLoading, duration, currentTime, prefs,
                                    isVideoMode, isMiniPlayerVisible, history, now>>
                ELSE UNCHANGED <<currentTrack, queue, queueIndex, playback, prefs,
                                 isVideoMode, isMiniPlayerVisible, history, now>>
    /\ Persisted
    /\ UNCHANGED outside

\* queueIndex and currentTrack as playNext() leaves them (r: the random draw)
cursorAfterNext(q, qi, track, mode, shuffled, r) ==
    IF Len(q) = 0 THEN [queueIndex |-> qi, currentTrack |-> track]
    ELSE LET nextIndex == nextIndexOf(q, qi, mode, shuffled, r)
             nextTrack == At(q, nextIndex)
         IN  IF nextTrack # Null
             THEN [queueIndex |-> nextIndex, currentTrack |-> nextTrack]
             ELSE [queueIndex |-> qi, currentTrack |-> track]

\* queueIndex and currentTrack as playPrevious() leaves them
cursorAfterPrevious(q, qi, track, time) ==
    IF Len(q) = 0 \/ time > RestartThreshold
    THEN [queueIndex |-> qi, currentTrack |-> track]
    ELSE LET prevIndex == prevIndexOf(q, qi)
             prevTrack == At(q, prevIndex)
         IN  IF prevTrack # Null
             THEN [queueIndex |-> prevIndex, currentTrack |-> prevTrack]
             ELSE [queueIndex |-> qi, currentTrack |-> track]

\* playPrevious()
PlayPrevious ==
    /\ lastOp' = "playPrevious"
    /\ IF Len(queue) = 0
       THEN UNCHANGED <<currentTrack, queue, queueIndex, playback, prefs,
                        isVideoMode, isMiniPlayerVisible, history, now>>
       ELSE IF currentTime > RestartThreshold
       THEN /\ currentTime' = 0
            /\ UNCHANGED <<currentTrack, queue, queueIndex, isPlaying, isLoading,
                           duration, prefs, isVideoMode, isMiniPlayerVisible,
                           history, now>>
       ELSE LET prevIndex == prevIndexOf(queue, queueIndex)
                prevTrack == At(queue, prevIndex)
            IN  IF prevTrack # Null
                THEN /\ queueIndex' = prevIndex
                     /\ currentTrack' = prevTrack
                     /\ isPlaying' = TRUE
                     /\ UNCHANGED <<queue, isLoading, duration, currentTime, prefs,
                                    isVideoMode, isMiniPlayerVisible, history, now>>
                ELSE UNCHANGED <<currentTrack, queue, queueIndex, playback, prefs,
                                 isVideoMode, isMiniPlayerVisible, history, now>>
    /\ Persisted
    /\ UNCHANGED outside

\* setCurrentTime(t)
SetCurrentTime(t) ==
    /\ currentTime' = t
    /\ lastOp' = "setCurrentTime"
    /\ UNCHANGED <<currentTrack, queue, queueIndex, isPlaying, isLoading,
                   duration, prefs, isVideoMode, isMiniPlayerVisible, history, now>>
    /\ Persisted
    /\ UNCHANGED outside

\* setDuration(duration)
SetDuration(d) ==
    /\ duration' = d
    /\ lastOp' = "setDuration"
    /\ UNCHANGED <<currentTrack, queue, queueIndex, isPlaying, isLoading,
                   currentTime, prefs, isVideoMode, isMiniPlayerVisible,
                   history, now>>
    /\ Persisted
    /\ UNCHANGED outside

\* setIsLoading(isLoading): onReady, onBuffer and onBufferEnd of the player
SetIsLoading(loading) ==
    /\ isLoading' = loading
    /\ lastOp' = "setIsLoading"
    /\ UNCHANGED <<currentTrack, queue, queueIndex, isPlaying, duration,
                   currentTime, prefs, isVideoMode, isMiniPlayerVisible,
                   history, now>>
    /\ Persisted
    /\ UNCHANGED outside

\* setVideoMode(isVideoMode)
SetVideoMode(mode) ==
    /\ isVideoMode' = mode
    /\ lastOp' = "setVideoMode"
    /\ UNCHANGED <<currentTrack, queue, queueIndex, playback, prefs,
                   isMiniPlayerVisible, history, now>>
    /\ Persisted
    /\ UNCHANGED outside

\* toggleVideoMode()
ToggleVideoMode ==
    /\ isVideoMode' = ~ isVideoMode
    /\ lastOp' = "toggleVideoMode"
    /\ UNCHANGED <<currentTrack, queue, queueIndex, playback, prefs,
                   isMiniPlayerVisible, history, now>>
    /\ Persisted
    /\ UNCHANGED outside

\* mutant: a volume above 0 does not lift a mute that is on
SetVolumeStickyMute(v) ==
    /\ volume' = v
    /\ isMuted' = (isMuted \/ v = 0)
    /\ lastOp' = "setVolume"
    /\ UNCHANGED <<currentTrack, queue, queueIndex, playback, isShuffled,
                   repeatMode, isVideoMode, isMiniPlayerVisible, history, now>>
    /\ Persisted
    /\ UNCHANGED outside

\* setVolume(v), v in percent
SetVolume(v) ==
    /\ volume' = v
    /\ isMuted' = (v = 0)
    /\ lastOp' = "setVolume"
    /\ UNCHANGED <<currentTrack, queue, queueIndex, playback, isShuffled,
                   repeatMode, isVideoMode, isMiniPlayerVisible, history, now>>
    /\ Persisted
    /\ UNCHANGED outside

\* mutant: muting stores volume 0
ToggleMuteZeroesVolume ==
    /\ isMuted' = ~isMuted
    /\ volume' = (IF isMuted THEN volume ELSE 0)
    /\ lastOp' = "toggleMute"
    /\ UNCHANGED <<currentTrack, queue, queueIndex, playback, isShuffled,
                   repeatMode, isVideoMode, isMiniPlayerVisible, history, now>>
    /\ Persisted
    /\ UNCHANGED outside

\* toggleMute()
ToggleMute ==
    /\ isMuted' = ~isMuted
    /\ lastOp' = "toggleMute"
    /\ UNCHANGED <<currentTrack, queue, queueIndex, playback, volume,
                   isShuffled, repeatMode, isVideoMode, isMiniPlayerVisible,
                   history, now>>
    /\ Persisted
    /\ UNCHANGED outside

\* the volume prop of the playback element: volume={isMuted ? 0 : volume}
effectiveVolume == IF isMuted THEN 0 ELSE volume

ToggleShuffle ==
    /\ isShuffled' = ~isShuffled
    /\ lastOp' = "toggleShuffle"
    /\ UNCHANGED <<currentTrack, queue, queueIndex, playback, volume, isMuted,
                   repeatMode, isVideoMode, isMiniPlayerVisible, history, now>>
    /\ Persisted
    /\ UNCHANGED outside

\* modes.indexOf(mode), 0-based, -1 when absent
modeIndexOf(mode) ==
    IF \E k \in 1..Len(RepeatModes) : RepeatModes[k] = mode
    THEN (CHOOSE k \in 1..Len(RepeatModes) : RepeatModes[k] = mode) - 1
    ELSE -1

\* mutant: the cycle skips 'one'
nextRepeatModeNoOne(mode) == IF mode = "off" THEN "all" ELSE "off"

nextRepeatMode(mode) == RepeatModes[((modeIndexOf(mode) + 1) % Len(RepeatModes)) + 1]

ToggleRepeat ==
    /\ repeatMode' = nextRepeatMode(repeatMode)
    /\ lastOp' = "toggleRepeat"
    /\ UNCHANGED <<currentTrack, queue, queueIndex, playback, volume, isMuted,
                   isShuffled, isVideoMode, isMiniPlayerVisible, history, now>>
    /\ Persisted
    /\ UNCHANGED outside

\* mutant: the cursor is not reset
CloseMiniPlayerKeepsIndex ==
    /\ currentTrack' = Null
    /\ isPlaying' = FALSE
    /\ isMiniPlayerVisible' = FALSE
    /\ queue' = << >>
    /\ lastOp' = "closeMiniPlayer"
    /\ UNCHANGED <<queueIndex, isLoading, duration, currentTime, prefs,
                   isVideoMode, history, now>>
    /\ Persisted
    /\ UNCHANGED outside

CloseMiniPlayer ==
    /\ currentTrack' = Null
    /\ isPlaying' = FALSE
    /\ isMiniPlayerVisible' = FALSE
    /\ queue' = << >>
    /\ queueIndex' = 0
    /\ lastOp' = "closeMiniPlayer"
    /\ UNCHANGED <<isLoading, duration, currentTime, prefs, isVideoMode,
                   history, now>>
    /\ Persisted
    /\ UNCHANGED outside

\* greatest common divisor of two naturals
RECURSIVE gcd(_, _)
gcd(a, b) == IF b = 0 THEN a ELSE gcd(b, a % b)

\* seekTime = (value[0] / 100) * duration, in seconds: a whole number of
\* seconds is that number, any other quotient (1.5 for value 50 and
\* duration 3) is the fraction value * duration / 100 in lowest terms
seekTimeOf(value, dur) ==
    IF (value * dur) % 100 = 0
    THEN (value * dur) \div 100
    ELSE [num |-> (value * dur) \div gcd(value * dur, 100),
          den |-> 100 \div gcd(value * dur, 100)]

\* mutant: progress events are stored also while the user drags the slider
HandleProgressUnguarded(playedSeconds) ==
    /\ currentTime' = playedSeconds
    /\ lastOp' = IF seeking THEN "handleProgress while seeking" ELSE "handleProgress"
    /\ UNCHANGED <<currentTrack, queue, queueIndex, isPlaying, isLoading,
                   duration, prefs, isVideoMode, isMiniPlayerVisible, history, now>>
    /\ Persisted
    /\ UNCHANGED outside

\* handleProgress(state): the playback element reports state.playedSeconds
HandleProgress(playedSeconds) ==
    /\ IF ~ seeking
       THEN /\ currentTime' = playedSeconds
            /\ lastOp' = "handleProgress"
       ELSE /\ currentTime' = currentTime
            /\ lastOp' = "handleProgress while seeking"
    /\ UNCHANGED <<currentTrack, queue, queueIndex, isPlaying, isLoading,
                   duration, prefs, isVideoMode, isMiniPlayerVisible, history, now>>
    /\ Persisted
    /\ UNCHANGED outside

\* handleSeekStart(): pointer down on the progress slider
HandleSeekStart ==
    /\ seeking' = TRUE
    /\ lastOp' = "handleSeekStart"
    /\ UNCHANGED <<currentTrack, queue, queueIndex, playback, prefs,
                   isVideoMode, isMiniPlayerVisible, history, now, storage,
                   seekValue, modals, effectDeps, journal>>

\* handleSeekChange(value)
HandleSeekChange(value) ==
    /\ seekValue' = value
    /\ lastOp' = "handleSeekChange"
    /\ UNCHANGED <<currentTrack, queue, queueIndex, playback, prefs,
                   isVideoMode, isMiniPlayerVisible, history, now, storage,
                   seeking, modals, effectDeps, journal>>

\* handleSeekEnd(value): the slider commits its value
HandleSeekEnd(value) ==
    /\ seeking' = FALSE
    /\ currentTime' = seekTimeOf(value, duration)
    /\ lastOp' = "handleSeekEnd"
    /\ UNCHANGED <<currentTrack, queue, queueIndex, isPlaying, isLoading,
                   duration, prefs, isVideoMode, isMiniPlayerVisible, history,
                   now, seekValue, modals, effectDeps, journal>>
    /\ Persisted

\* the subscription store shows a restriction modal
ShowModal(kind) ==
    /\ showTimeLimitModal' = (showTimeLimitModal \/ kind = "timeLimit")
    /\ showLoginModal' = (showLoginModal \/ kind = "login")
    /\ showLanguageRestrictionModal' =
          (showLanguageRestrictionModal \/ kind = "languageRestriction")
    /\ lastOp' = "showModal"
    /\ UNCHANGED <<currentTrack, queue, queueIndex, playback, prefs,
                   isVideoMode, isMiniPlayerVisible, history, now, storage,
                   seek, effectDeps, journal>>

\* closeModal(kind)
CloseModal(kind) ==
    /\ showTimeLimitModal' = (showTimeLimitModal /\ kind # "timeLimit")
    /\ showLoginModal' = (showLoginModal /\ kind # "login")
    /\ showLanguageRestrictionModal' =
          (showLanguageRestrictionModal /\ kind # "languageRestriction")
    /\ lastOp' = "closeModal"
    /\ UNCHANGED <<currentTrack, queue, queueIndex, playback, prefs,
                   isVideoMode, isMiniPlayerVisible, history, now, storage,
                   seek, effectDeps, journal>>

\* mutant: the language-restriction modal is left out of the test
RestrictionEffectNoLanguage ==
    /\ restrictionDeps # effectDeps
    /\ IF (showTimeLimitModal \/ showLoginModal) /\ isPlaying
       THEN /\ isPlaying' = FALSE
            /\ lastOp' = "restriction effect: pause"
       ELSE /\ isPlaying' = isPlaying
            /\ lastOp' = "restriction effect"
    /\ UNCHANGED <<currentTrack, queue, queueIndex, isLoading, duration,
                   currentTime, prefs, isVideoMode, isMiniPlayerVisible, history,
                   now, seek, modals, journal>>
    /\ effectDeps' = restrictionDeps'
    /\ Persisted

\* the provider's restriction effect: React runs it after a render in which
\* one of its dependencies differs from the run before. When it calls
\* pause() the store update re-renders the provider synchronously and the
\* effect runs once more, with isPlaying false and nothing to do: the step
\* ends with the dependencies of that second run.
RestrictionEffect ==
    /\ restrictionDeps # effectDeps
    /\ IF (showTimeLimitModal \/ showLoginModal \/ showLanguageRestrictionModal)
          /\ isPlaying
       THEN /\ isPlaying' = FALSE
            /\ lastOp' = "restriction effect: pause"
       ELSE /\ isPlaying' = isPlaying
            /\ lastOp' = "restriction effect"
    /\ UNCHANGED <<currentTrack, queue, queueIndex, isLoading, duration,
                   currentTime, prefs, isVideoMode, isMiniPlayerVisible, history,
                   now, seek, modals, journal>>
    /\ effectDeps' = restrictionDeps'
    /\ Persisted

\* everything but the journal page and the journal store
notJournal == <<currentTrack, queue, queueIndex, playback, prefs, isVideoMode,
                isMiniPlayerVisible, history, now, storage, seek, modals,
                effectDeps>>

\* generateId(): the id of the n-th entry created, a new one at every call
generateId(n) ==
    CASE n = 1 -> "entry_1"
      [] n = 2 -> "entry_2"
      [] n = 3 -> "entry_3"
      [] n = 4 -> "entry_4"

\* the ids generated so far
EntryIds == {generateId(n) : n \in 1..entriesCreated}

\* the entry createEntry() makes, with the fields the model follows
NewEntry(id) ==
    [id |-> id, title |-> "", content |-> "", plainText |-> "",
     mood |-> DefaultMood, media |-> << >>, isDraft |-> TRUE]

\* getEntry(id) = entries.find(e => e.id === id): << >> stands for undefined
getEntry(stored, id) ==
    LET found == SelectSeq(stored, LAMBDA e : e.id = id)
    IN  IF found = << >> THEN << >> ELSE << Head(found) >>

\* !text?.trim() for the titles and texts of the model
isBlank(text) == text \in {"", " "}

\* the waiting calls of the debounced saves and the store calls that wait
\* for IndexedDB, oldest first; live marks those of the page that is
\* mounted, and the unmount of the page leaves them running
orphaned(calls) == [k \in 1..Len(calls) |-> [calls[k] EXCEPT !.live = FALSE]]

\* calls without the k-th
without(calls, k) == SubSeq(calls, 1, k - 1) \o SubSeq(calls, k + 1, Len(calls))

\* debounce(fn, AUTO_SAVE_DELAY): a call drops the call of this debounced
\* function that is waiting and waits with its own arguments
debounce(pending, id, updates) ==
    SelectSeq(pending, LAMBDA call : ~ call.live)
       \o << [id |-> id, field |-> updates.field, value |-> updates.value,
              live |-> TRUE] >>

\* updateEntry(id, updates):
\* entries.map(entry => entry.id === id ? { ...entry, ...updates } : entry)
updateEntry(stored, id, updates) ==
    [k \in 1..Len(stored) |->
        IF stored[k].id = id
        THEN [stored[k] EXCEPT ![updates.field] = updates.value]
        ELSE stored[k]]

\* the set() of addMedia: media: [...entry.media, mediaItem] on the entry
addMedia(stored, id, mediaId) ==
    [k \in 1..Len(stored) |->
        IF stored[k].id = id
        THEN [stored[k] EXCEPT !.media = Append(@, mediaId)]
        ELSE stored[k]]

\* the set() of removeMedia: media: entry.media.filter(m => m.id !== mediaId)
removeMedia(stored, id, mediaId) ==
    [k \in 1..Len(stored) |->
        IF stored[k].id = id
        THEN [stored[k] EXCEPT !.media = SelectSeq(@, LAMBDA m : m # mediaId)]
        ELSE stored[k]]

\* the set() of deleteEntry: entries.filter(e => e.id !== id)
deleteEntry(stored, id) == SelectSeq(stored, LAMBDA e : e.id # id)

\* entry?.media?.length in deleteEntry, read from the store: the entry has
\* media in IndexedDB to delete before the set()
hasStoredMedia(stored, id) ==
    /\ getEntry(stored, id) # << >>
    /\ getEntry(stored, id)[1].media # << >>

\* the test of handleBack and handlePublish on the page's entry:
\* !entry.title?.trim() && !entry.plainText?.trim() && !entry.media?.length
isEmptyEntry(e) == isBlank(e.title) /\ isBlank(e.plainText) /\ e.media = << >>

\* the page unmounts: its state is gone, its timers and promises stay
PageCloses ==
    /\ routeId' = << >>
    /\ entry' = << >>
    /\ pendingSave' = orphaned(pendingSave)

\* the mount effect of the page at /journal/new, reached from the list with
\* navigate('/journal/new'): createEntry() puts a blank draft first in the
\* store and the page takes it
MountNew ==
    /\ routeId = << >>
    /\ entriesCreated < MaxEntries
    /\ Len(pendingSave) < MaxWaiting
    /\ entries' = << NewEntry(generateId(entriesCreated + 1)) >> \o entries
    /\ entry' = << NewEntry(generateId(entriesCreated + 1)) >>
    /\ entriesCreated' = entriesCreated + 1
    /\ routeId' = << "new" >>
    /\ lastOp' = "journal"
    /\ UNCHANGED <<notJournal, pendingSave, inflight, mediaCreated>>

\* the mount effect of the page at /journal/:id: getEntry(id), or the
\* redirect to the list when the entry is gone
MountEntry(id) ==
    /\ routeId = << >>
    /\ Len(pendingSave) < MaxWaiting
    /\ IF getEntry(entries, id) # << >>
       THEN /\ routeId' = << id >>
            /\ entry' = getEntry(entries, id)
       ELSE /\ UNCHANGED <<routeId, entry>>
    /\ lastOp' = "journal"
    /\ UNCHANGED <<notJournal, entries, pendingSave, inflight, entriesCreated,
                   mediaCreated>>

\* the page is left without one of its handlers: the browser's back button
\* or a link of the layout
Leave ==
    /\ routeId # << >>
    /\ PageCloses
    /\ inflight' = orphaned(inflight)
    /\ lastOp' = "journal"
    /\ UNCHANGED <<notJournal, entries, entriesCreated, mediaCreated>>

\* handleChange(field, value)
HandleChange(field, value) ==
    /\ routeId # << >>
    /\ IF entry = << >>
       THEN UNCHANGED <<entry, pendingSave>>
       ELSE /\ entry' = << [entry[1] EXCEPT ![field] = value] >>
            /\ pendingSave' = debounce(pendingSave, entry[1].id,
                                       [field |-> field, value |-> value])
    /\ lastOp' = "journal"
    /\ UNCHANGED <<notJournal, routeId, entries, inflight, entriesCreated,
                   mediaCreated>>

\* handleChange('title', value), the onChange of the title input
HandleChangeTitle(value) ==
    /\ HandleChange("title", value)
    /\ routeId' = routeId

\* handleMoodChange(mood) = handleChange('mood', mood)
HandleMoodChange(value) ==
    /\ HandleChange("mood", value)
    /\ routeId' = routeId

\* handleInput of the rich text editor, run by an input event and by
\* handleFormat after document.execCommand: it reads innerHTML and
\* innerText of the editor node and calls onChange(html) =
\* handleChange('content', html), then onPlainTextChange(plainText) =
\* handlePlainTextChange(plainText)
HandleInput(node) ==
    /\ routeId # << >>
    /\ IF entry = << >>
       THEN UNCHANGED <<entry, pendingSave>>
       ELSE /\ entry' = << [entry[1] EXCEPT !.content = node.innerHTML,
                                            !.plainText = node.innerText] >>
            /\ pendingSave' =
                  debounce(debounce(pendingSave, entry[1].id,
                                    [field |-> "content", value |-> node.innerHTML]),
                           entry[1].id,
                           [field |-> "plainText", value |-> node.innerText])
    /\ lastOp' = "journal"
    /\ UNCHANGED <<notJournal, routeId, entries, inflight, entriesCreated,
                   mediaCreated>>

\* the debounce delay of the oldest waiting call elapses: it runs
\* updateEntry(entryId, updates)
AutoSave ==
    /\ pendingSave # << >>
    /\ entries' = updateEntry(entries, Head(pendingSave).id, Head(pendingSave))
    /\ pendingSave' = Tail(pendingSave)
    /\ lastOp' = "journal"
    /\ UNCHANGED <<notJournal, routeId, entry, inflight, entriesCreated,
                   mediaCreated>>

\* autoSaveDraft(id, updates) of the store = updateEntry(id, updates)
AutoSaveDraft(id, updates) ==
    /\ entries' = updateEntry(entries, id, updates)
    /\ lastOp' = "journal"
    /\ UNCHANGED <<notJournal, routeId, entry, pendingSave, inflight,
                   entriesCreated, mediaCreated>>

\* handleAddImage / handleAudioSave up to the await: addMedia makes the
\* media id and waits for saveMediaToDB
HandleAddMedia ==
    /\ routeId # << >>
    /\ IF entry = << >>
       THEN UNCHANGED <<inflight, mediaCreated>>
       ELSE /\ mediaCreated < MaxMedia
            /\ Len(inflight) < MaxInflight
            /\ inflight' = Append(inflight,
                                  [op |-> "addMedia", id |-> entry[1].id,
                                   mediaId |-> mediaCreated + 1,
                                   navigate |-> FALSE, live |-> TRUE])
            /\ mediaCreated' = mediaCreated + 1
    /\ lastOp' = "journal"
    /\ UNCHANGED <<notJournal, routeId, entry, entries, pendingSave,
                   entriesCreated>>

\* handleRemoveImage / handleRemoveAudio, the remove button of a media
\* item the page shows, up to the await: removeMedia waits for
\* deleteMediaFromDB
HandleRemoveMedia(mediaId) ==
    /\ routeId # << >>
    /\ IF entry = << >>
       THEN UNCHANGED inflight
       ELSE /\ \E k \in 1..Len(entry[1].media) : entry[1].media[k] = mediaId
            /\ Len(inflight) < MaxInflight
            /\ inflight' = Append(inflight,
                                  [op |-> "removeMedia", id |-> entry[1].id,
                                   mediaId |-> mediaId,
                                   navigate |-> FALSE, live |-> TRUE])
    /\ lastOp' = "journal"
    /\ UNCHANGED <<notJournal, routeId, entry, entries, pendingSave,
                   entriesCreated, mediaCreated>>

\* IndexedDB has answered the k-th waiting addMedia or removeMedia: the
\* store's set() runs, and the handler of a page that is still mounted
\* takes the stored entry, setEntry(getEntry(entry.id))
MediaSettles(k) ==
    /\ inflight[k].op \in {"addMedia", "removeMedia"}
    /\ entries' = IF inflight[k].op = "addMedia"
                  THEN addMedia(entries, inflight[k].id, inflight[k].mediaId)
                  ELSE removeMedia(entries, inflight[k].id, inflight[k].mediaId)
    /\ entry' = IF inflight[k].live
                THEN getEntry(entries', inflight[k].id)
                ELSE entry
    /\ inflight' = without(inflight, k)
    /\ lastOp' = "journal"
    /\ UNCHANGED <<notJournal, routeId, pendingSave, entriesCreated,
                   mediaCreated>>

\* saveMediaToDB rejects: addMedia throws before its set() and the handler
\* logs the error
AddMediaRejects(k) ==
    /\ inflight[k].op = "addMedia"
    /\ inflight' = without(inflight, k)
    /\ lastOp' = "journal"
    /\ UNCHANGED <<notJournal, routeId, entry, entries, pendingSave,
                   entriesCreated, mediaCreated>>

\* handleDelete: deleteEntry(id) runs its set() at once when the stored
\* entry has no media, and the page is left; with media it waits for
\* deleteMediaFromDB first
HandleDelete ==
    /\ routeId # << >>
    /\ IF entry = << >>
       THEN UNCHANGED <<routeId, entry, entries, pendingSave, inflight>>
       ELSE IF hasStoredMedia(entries, entry[1].id)
            THEN /\ Len(inflight) < MaxInflight
                 /\ inflight' = Append(inflight,
                                       [op |-> "deleteEntry", id |-> entry[1].id,
                                        mediaId |-> 0,
                                        navigate |-> TRUE, live |-> TRUE])
                 /\ UNCHANGED <<routeId, entry, entries, pendingSave>>
            ELSE /\ entries' = deleteEntry(entries, entry[1].id)
                 /\ PageCloses
                 /\ inflight' = orphaned(inflight)
    /\ lastOp' = "journal"
    /\ UNCHANGED <<notJournal, entriesCreated, mediaCreated>>

\* handleBack: an empty draft is deleted (deleteEntry is not awaited), then
\* the page is left
HandleBack ==
    /\ routeId # << >>
    /\ IF entry # << >> /\ entry[1].isDraft /\ isEmptyEntry(entry[1])
       THEN IF hasStoredMedia(entries, entry[1].id)
            THEN /\ Len(inflight) < MaxInflight
                 /\ inflight' = Append(orphaned(inflight),
                                       [op |-> "deleteEntry", id |-> entry[1].id,
                                        mediaId |-> 0,
                                        navigate |-> FALSE, live |-> FALSE])
                 /\ UNCHANGED entries
            ELSE /\ entries' = deleteEntry(entries, entry[1].id)
                 /\ inflight' = orphaned(inflight)
       ELSE /\ UNCHANGED entries
            /\ inflight' = orphaned(inflight)
    /\ PageCloses
    /\ lastOp' = "journal"
    /\ UNCHANGED <<notJournal, entriesCreated, mediaCreated>>

\* IndexedDB has answered the k-th waiting deleteEntry: its set() runs;
\* handleDelete then goes on to navigate('/journal'), which leaves whatever
\* journal page is mounted by then
DeleteSettles(k) ==
    /\ inflight[k].op = "deleteEntry"
    /\ entries' = deleteEntry(entries, inflight[k].id)
    /\ IF inflight[k].navigate
       THEN /\ PageCloses
            /\ inflight' = orphaned(without(inflight, k))
       ELSE /\ inflight' = without(inflight, k)
            /\ UNCHANGED <<routeId, entry, pendingSave>>
    /\ lastOp' = "journal"
    /\ UNCHANGED <<notJournal, entriesCreated, mediaCreated>>

\* handlePublish: an entry without title, text and media is refused with an
\* alert; otherwise publishEntry(id) and the page is left
HandlePublish ==
    /\ routeId # << >>
    /\ IF entry = << >> \/ isEmptyEntry(entry[1])
       THEN UNCHANGED <<routeId, entry, entries, pendingSave, inflight>>
       ELSE /\ entries' = updateEntry(entries, entry[1].id,
                                      [field |-> "isDraft", value |-> FALSE])
            /\ PageCloses
            /\ inflight' = orphaned(inflight)
    /\ lastOp' = "journal"
    /\ UNCHANGED <<notJournal, entriesCreated, mediaCreated>>

\* a reload of the page: the store is built anew from its initial state and
\* the persisted record is merged over it; the components mount again and
\* no timer or promise survives. The journal store persists its entries at
\* every set(), so they come back as they were; the mount effect of an open
\* journal page runs again: createEntry() at /journal/new, getEntry(id) or
\* the redirect at /journal/:id
Restart ==
    /\ currentTrack' = Null
    /\ queue' = << >>
    /\ queueIndex' = 0
    /\ isPlaying' = FALSE
    /\ isLoading' = FALSE
    /\ duration' = 0
    /\ currentTime' = 0
    /\ isVideoMode' = TRUE
    /\ isMiniPlayerVisible' = FALSE
    /\ volume' = storage.volume
    /\ isMuted' = storage.isMuted
    /\ isShuffled' = storage.isShuffled
    /\ repeatMode' = storage.repeatMode
    /\ history' = storage.history
    /\ lastOp' = "restart"
    /\ seeking' = FALSE
    /\ seekValue' = 0
    /\ IF routeId = << "new" >>
       THEN /\ entriesCreated < MaxEntries
            /\ entries' = << NewEntry(generateId(entriesCreated + 1)) >> \o entries
            /\ entry' = << NewEntry(generateId(entriesCreated + 1)) >>
            /\ entriesCreated' = entriesCreated + 1
            /\ UNCHANGED routeId
       ELSE /\ IF routeId # << >> /\ getEntry(entries, routeId[1]) # << >>
               THEN /\ entry' = getEntry(entries, routeId[1])
                    /\ UNCHANGED routeId
               ELSE /\ entry' = << >>
                    /\ routeId' = << >>
            /\ UNCHANGED <<entries, entriesCreated>>
    /\ pendingSave' = << >>
    /\ inflight' = << >>
    /\ UNCHANGED <<now, modals, mediaCreated>>
    /\ effectDeps' = restrictionDeps'
    /\ Persisted

\* addToHistory(track) called on its own; lastOp tells whether the filter
\* found an older record of the track
AddToHistory(track) ==
    /\ history' = addToHistory(history, track, now)
    /\ lastOp' = IF \E k \in 1..Len(history) : history[k].id = track.id
                 THEN "addToHistory, played before"
                 ELSE "addToHistory"
    /\ UNCHANGED <<currentTrack, queue, queueIndex, playback, prefs,
                   isVideoMode, isMiniPlayerVisible, now>>
    /\ Persisted
    /\ UNCHANGED outside

ClearHistory ==
    /\ history' = << >>
    /\ lastOp' = "clearHistory"
    /\ UNCHANGED <<currentTrack, queue, queueIndex, playback, prefs,
                   isVideoMode, isMiniPlayerVisible, now>>
    /\ Persisted
    /\ UNCHANGED outside

\* the wall clock read by new Date() advances between calls
Tick ==
    /\ now < MaxClock
    /\ now' = now + 1
    /\ lastOp' = "tick"
    /\ UNCHANGED <<currentTrack, queue, queueIndex, playback, prefs,
                   isVideoMode, isMiniPlayerVisible, history>>
    /\ Persisted
    /\ UNCHANGED outside

----------------------------------------------------------------------------
(* The store driven by the pages: tracks and queues come from the media   *)
(* list; shuffle, repeat and the playback position stay as constructed.   *)
Next ==
    \/ \E track \in Catalog \cup {Null} : SetCurrentTrack(track)
    \/ \E q \in Playlists, i \in StartIndexes : SetQueue(q, i)
    \/ \E track \in Catalog \cup {Null}, q \in Playlists : PlayTrackQueue(track, q)
    \/ \E q \in Playlists : PlayTrackThrows(q)
    \/ \E track \in Catalog \cup {Null} : PlayTrackNoQueue(track)
    \/ TogglePlay
    \/ Play
    \/ Pause
    \/ PlayNext
    \/ PlayPrevious
    \/ CloseMiniPlayer
    \/ \E track \in Catalog : AddToHistory(track)
    \/ ClearHistory

Spec == Init /\ [][Next]_vars

(* The cursor under every transport setting: next / previous with shuffle, *)
(* repeat and the playback position varying.                               *)
NextCursor ==
    \/ \E track \in Catalog : SetCurrentTrack(track)
    \/ \E q \in Playlists, i \in StartIndexes : SetQueue(q, i)
    \/ \E track \in Catalog, q \in Playlists : PlayTrackQueue(track, q)
    \/ \E track \in Catalog : PlayTrackNoQueue(track)
    \/ Pause
    \/ PlayNext
    \/ PlayPrevious
    \/ \E t \in Times : SetCurrentTime(t)
    \/ ToggleShuffle
    \/ ToggleRepeat
    \/ CloseMiniPlayer

SpecCursor == Init /\ [][NextCursor]_vars

(* playTrack with every array of media items as the queue: repeated items, *)
(* the track absent, the track at any position.                            *)
NextPlay ==
    \/ \E track \in Catalog \cup {Null}, q \in Queues : PlayTrackQueue(track, q)
    \/ \E q \in Queues : PlayTrackThrows(q)
    \/ \E track \in Catalog \cup {Null} : PlayTrackNoQueue(track)
    \/ Pause
    \/ CloseMiniPlayer

SpecPlay == Init /\ [][NextPlay]_vars

(* An album session: a list of distinct tracks A, B, C, ... is queued at   *)
(* one of its positions and stepped through with next / previous under    *)
(* every repeat and shuffle setting.                                       *)
Album(k) == [i \in 1..k |-> MediaItem(i)]

NextSeq ==
    \/ \E k \in 1..SeqLen : \E i \in 0..(k - 1) : SetQueue(Album(k), i)
    \/ Pause
    \/ PlayNext
    \/ PlayPrevious
    \/ \E t \in Times : SetCurrentTime(t)
    \/ ToggleShuffle
    \/ ToggleRepeat

SpecSeq == Init /\ [][NextSeq]_vars

(* A listening session with the preferences changing and the page reloaded *)
NextSession ==
    \/ \E track \in Catalog, q \in Playlists : PlayTrackQueue(track, q)
    \/ PlayNext
    \/ \E t \in Times : SetCurrentTime(t)
    \/ \E v \in Volumes : SetVolume(v)
    \/ ToggleMute
    \/ ToggleShuffle
    \/ ToggleRepeat
    \/ CloseMiniPlayer
    \/ Restart

SpecSession == Init /\ [][NextSession]_vars

(* The progress slider of the player: progress events of the playback      *)
(* element interleaved with the user's drag of the slider.                 *)
NextSeek ==
    \/ \E track \in Catalog : SetCurrentTrack(track)
    \/ \E loading \in BOOLEAN : SetIsLoading(loading)
    \/ \E mode \in BOOLEAN : SetVideoMode(mode)
    \/ ToggleVideoMode
    \/ \E d \in Durations : SetDuration(d)
    \/ \E p \in PlayedSeconds : HandleProgress(p)
    \/ HandleSeekStart
    \/ \E v \in SeekValues : HandleSeekChange(v)
    \/ \E v \in SeekValues : HandleSeekEnd(v)
    \/ TogglePlay

SpecSeek == Init /\ [][NextSeek]_vars

(* Playback under the subscription provider: restriction modals open and   *)
(* close while the user tries to play; the effect runs once it is due.     *)
NextGate ==
    \/ \E kind \in ModalKinds : ShowModal(kind)
    \/ \E kind \in ModalKinds : CloseModal(kind)
    \/ RestrictionEffect
    \/ \E track \in Catalog, q \in Playlists : PlayTrackQueue(track, q)
    \/ \E track \in Catalog : PlayTrackNoQueue(track)
    \/ PlayNext
    \/ Play
    \/ TogglePlay
    \/ Pause

SpecGate == Init /\ [][NextGate]_vars /\ WF_vars(RestrictionEffect)

(* The journal: the entry page opened for a new and for a stored entry,   *)
(* edits of the title, the text, the mood and the media, the debounced     *)
(* auto-save, the store calls that wait for IndexedDB, leaving the page    *)
(* and reloading it.                                                       *)
NextJournal ==
    \/ MountNew
    \/ \E id \in EntryIds : MountEntry(id)
    \/ Leave
    \/ \E value \in Titles : HandleChangeTitle(value)
    \/ \E value \in Moods : HandleMoodChange(value)
    \/ \E node \in EditorNodes : HandleInput(node)
    \/ AutoSave
    \/ \E id \in EntryIds, updates \in DraftUpdates : AutoSaveDraft(id, updates)
    \/ HandleAddMedia
    \/ \E mediaId \in 1..mediaCreated : HandleRemoveMedia(mediaId)
    \/ \E k \in 1..Len(inflight) : MediaSettles(k)
    \/ \E k \in 1..Len(inflight) : AddMediaRejects(k)
    \/ HandleDelete
    \/ HandleBack
    \/ \E k \in 1..Len(inflight) : DeleteSettles(k)
    \/ HandlePublish
    \/ Restart

SpecJournal == Init /\ [][NextJournal]_vars

(* The history log on its own, with the clock running and every track     *)
(* object as input.                                                        *)
NextHistory ==
    \/ \E track \in Tracks : AddToHistory(track)
    \/ ClearHistory
    \/ Tick

SpecHistory == Init /\ [][NextHistory]_vars

(* The history over a longer media list: every writer of the history      *)
(* (addToHistory itself, setCurrentTrack, playTrack, playNext) with the    *)
(* tracks 1..LogIds, so that the log holds several older records whose     *)
(* order an insertion has to keep.                                         *)
LogCatalog == {MediaItem(i) : i \in 1..LogIds}
LogAlbum   == [i \in 1..LogIds |-> MediaItem(i)]

NextLog ==
    \/ \E track \in LogCatalog : AddToHistory(track)
    \/ \E track \in LogCatalog : SetCurrentTrack(track)
    \/ \E track \in LogCatalog : PlayTrackQueue(track, LogAlbum)
    \/ \E track \in LogCatalog : PlayTrackNoQueue(track)
    \/ PlayNext
    \/ ToggleShuffle
    \/ ClearHistory

SpecLog == Init /\ [][NextLog]_vars

(* The history cap: CapRun tracks with the ids 1, 2, 3, ... are played one *)
(* after the other on a fresh store.                                       *)
nextCapId == IF history = << >> THEN 1 ELSE history[1].id + 1

NextCap ==
    \E k \in 1..CapRun : k = nextCapId /\ AddToHistory(MediaItem(k))

SpecCap == Init /\ [][NextCap]_vars

----------------------------------------------------------------------------
(* Properties *)

restrictionModalShown ==
    showTimeLimitModal \/ showLoginModal \/ showLanguageRestrictionModal

\* the restriction effect has run for the values the store and the modals hold
effectSettled == effectDeps = restrictionDeps

InRange(q, i) == i >= 0 /\ i < Len(q)

UniqueIds(h) == \A i, j \in 1..Len(h) : h[i].id = h[j].id => i = j

\* behind its front record, h2 holds the records of h1 for the other ids in
\* their old order, as many as the cap leaves room for
OthersKeepOrder(h1, h2) ==
    /\ h2 # << >>
    /\ LET rest == SelectSeq(h1, LAMBDA e : e.id # h2[1].id)
           kept == IF Len(rest) < HistoryCap THEN Len(rest) ELSE HistoryCap - 1
       IN  Tail(h2) = SubSeq(rest, 1, kept)

\* C1 as stated: in every reachable state a non-empty queue has currentTrack
\* = queue[queueIndex], and an empty queue has currentTrack null and
\* queueIndex 0.
C1_QueueCursorInvariant ==
    /\ queue # << >> =>
          InRange(queue, queueIndex) /\ currentTrack = queue[queueIndex + 1]
    /\ queue = << >> => currentTrack = Null /\ queueIndex = 0

\* C1 amended: right after setQueue, closeMiniPlayer, playNext on a
\* non-empty queue and playPrevious on a non-empty queue with currentTime
\* <= 3, currentTrack is queue[queueIndex] whenever queueIndex is an index
\* of the queue; after setQueue and closeMiniPlayer it is null otherwise,
\* and closeMiniPlayer leaves the queue empty with queueIndex 0.
C1_CursorConsistentAfterSelection ==
    [][ /\ lastOp' \in {"setQueue", "closeMiniPlayer"} =>
              IF InRange(queue', queueIndex')
              THEN currentTrack' = queue'[queueIndex' + 1]
              ELSE currentTrack' = Null
        /\ lastOp' = "closeMiniPlayer" => queue' = << >> /\ queueIndex' = 0
        /\ (lastOp' = "playNext" /\ queue # << >> /\ InRange(queue', queueIndex')) =>
              currentTrack' = queue'[queueIndex' + 1]
        /\ (/\ lastOp' = "playPrevious"
            /\ queue # << >>
            /\ currentTime <= RestartThreshold
            /\ InRange(queue', queueIndex')) =>
              currentTrack' = queue'[queueIndex' + 1]
      ]_vars

C1_Witness ==
    /\ lastOp = "playNext"
    /\ isShuffled
    /\ Len(queue) = 2
    /\ queueIndex = 1
    /\ currentTrack = queue[2]
    /\ queue[1] # queue[2]

\* C2: with a non-empty queue, 0 <= queueIndex < len(queue) in every
\* reachable state, setQueue with an arbitrary startIndex included.
C2_CursorInBounds == queue # << >> => InRange(queue, queueIndex)

\* C3: no two history records share a track id, the track handed to
\* addToHistory (directly or by setCurrentTrack, playTrack, playNext) is the
\* front record, and the other records keep their relative order.
C3_HistoryUniqueMostRecentFirst ==
    [][ /\ UniqueIds(history')
        /\ \A t \in LogCatalog :
              AddToHistory(t) =>
                 history'[1].id = t.id /\ OthersKeepOrder(history, history')
        /\ (\/ /\ lastOp' \in {"setCurrentTrack", "playTrack(track, queue)",
                               "playTrack(track)"}
               /\ currentTrack' # Null
            \/ /\ lastOp' = "playNext"
               /\ queue # << >>
               /\ InRange(queue', queueIndex')) =>
              /\ OthersKeepOrder(history, history')
              /\ history'[1].id = currentTrack'.id
      ]_vars

\* tracks 1, 2, 3, 4 were played in this order and track 2 is played again:
\* it moves to the front and 4, 3, 1 stay in their order
C3_Witness ==
    /\ lastOp = "addToHistory, played before"
    /\ Len(history) = LogIds
    /\ history[1].id = 2
    /\ history[2].id = 4
    /\ history[3].id = 3
    /\ history[4].id = 1

\* C4: the history never holds more than 100 records, and after N distinct
\* tracks 1..N it holds the min(N, 100) most recent ones, most recent first.
C4_HistoryCap ==
    /\ Len(history) <= HistoryCap
    /\ history # << >> =>
          LET n == history[1].id
          IN  /\ Len(history) = (IF n > HistoryCap THEN HistoryCap ELSE n)
              /\ \A k \in 1..Len(history) : history[k].id = n - k + 1

C4_Witness ==
    /\ Len(history) = HistoryCap
    /\ history[1].id = HistoryCap + 3
    /\ history[HistoryCap].id = 4

\* C5: addToHistory(t) for a track whose id is already in the history keeps
\* the length; the record of t, with playedAt = now, becomes the front and
\* the other records keep their order.
C5_HistoryMoveToFront ==
    [][ \A t \in Tracks :
          (AddToHistory(t) /\ \E k \in 1..Len(history) : history[k].id = t.id) =>
             /\ Len(history') = Len(history)
             /\ history'[1] = [id |-> t.id, type |-> t.type, playedAt |-> now]
             /\ OthersKeepOrder(history, history')
      ]_vars

C5_Witness ==
    /\ lastOp = "addToHistory, played before"
    /\ Len(history) = 1
    /\ history[1].playedAt = 1

\* C6: after playTrack(track, queue) the queue is the supplied list,
\* queueIndex is the position of the first element with the id of track (0
\* when there is none), currentTrack is track and isPlaying is true.
C6_PlayTrackWithQueue ==
    [][ \A t \in Catalog \cup {Null}, q \in Queues :
          PlayTrackQueue(t, q) =>
             /\ queue' = q
             /\ currentTrack' = t
             /\ isPlaying' = TRUE
             /\ IF \E k \in 1..Len(q) : q[k].id = t.id
                THEN /\ InRange(q, queueIndex')
                     /\ q[queueIndex' + 1].id = t.id
                     /\ \A j \in 1..queueIndex' : q[j].id # t.id
                ELSE queueIndex' = 0
      ]_vars

C6_Witness ==
    /\ lastOp = "playTrack(track, queue)"
    /\ Len(queue) = 2
    /\ queueIndex = 1
    /\ currentTrack = queue[2]
    /\ queue[1].id # currentTrack.id
    /\ isPlaying

\* C7: playTrack(track) without a queue leaves queue and queueIndex as they
\* were; it replaces currentTrack, sets isPlaying and records the track in
\* the history, and leaves the other playback fields and the preferences.
C7_PlayTrackWithoutQueueFrame ==
    [][ \A t \in Catalog \cup {Null} :
          PlayTrackNoQueue(t) =>
             /\ queue' = queue
             /\ queueIndex' = queueIndex
             /\ currentTrack' = t
             /\ isPlaying' = TRUE
             /\ t = Null => history' = history
             /\ UNCHANGED <<isLoading, duration, currentTime, volume, isMuted,
                            isShuffled, repeatMode>>
      ]_vars

C7_Witness ==
    /\ lastOp = "playTrack(track)"
    /\ Len(queue) = 2
    /\ queueIndex = 1
    /\ currentTrack = queue[1]
    /\ currentTrack # queue[2]
    /\ isPlaying

\* C8 as stated: after playTrack(track) without a queue, queue = [track] and
\* queueIndex = 0.
C8_ImplicitOneItemQueue ==
    [][ \A t \in Catalog :
          PlayTrackNoQueue(t) => queue' = <<t>> /\ queueIndex' = 0
      ]_vars

\* C8 amended: playTrack(track) without a queue builds no queue: the queue
\* is [track] afterwards only if it was [track] before, and on an empty
\* queue it stays empty, queueIndex keeps its value and currentTrack is
\* track.
C8_NoImplicitQueue ==
    [][ \A t \in Catalog :
          PlayTrackNoQueue(t) =>
             /\ queue' = <<t>> <=> queue = <<t>>
             /\ queue = << >> =>
                   queue' = << >> /\ queueIndex' = queueIndex /\ currentTrack' = t
      ]_vars

C8_Witness ==
    /\ lastOp = "playTrack(track)"
    /\ queue = << >>
    /\ queueIndex = 0
    /\ currentTrack # Null
    /\ isPlaying

\* C9: right after setCurrentTrack(t), playTrack(t, ...) with t non-null,
\* or a playNext() that selects a track, the front record of the history
\* has the id of the new currentTrack.
C9_TransitionRecordsHistory ==
    [][ (\/ /\ lastOp' \in {"setCurrentTrack", "playTrack(track, queue)",
                            "playTrack(track)"}
            /\ currentTrack' # Null
         \/ /\ lastOp' = "playNext"
            /\ queue # << >>
            /\ InRange(queue', queueIndex')) =>
           history' # << >> /\ history'[1].id = currentTrack'.id
      ]_vars

C9_Witness ==
    /\ lastOp = "playNext"
    /\ repeatMode = "all"
    /\ queueIndex = 0
    /\ Len(queue) = 2
    /\ Len(history) = 2
    /\ history[1].id = currentTrack.id
    /\ history[2].id = queue[2].id

\* C10: whenever a track becomes the current track, by whatever operation
\* (setQueue and playPrevious included), it is the front record of the
\* history.
C10_FrontIsCurrentTrack ==
    [][ (currentTrack' # Null /\ currentTrack' # currentTrack) =>
           history' # << >> /\ history'[1].id = currentTrack'.id
      ]_vars

\* C11: setQueue(items, i) makes items[i] the current track for every
\* in-bounds i; for an out-of-bounds i (or empty items) it returns with
\* currentTrack null or with the cursor inside the queue.
C11_SetQueueSelects ==
    [][ \A q \in Playlists, i \in StartIndexes :
          SetQueue(q, i) =>
             /\ queue' = q
             /\ InRange(q, i) => currentTrack' = q[i + 1]
             /\ ~InRange(q, i) =>
                   currentTrack' = Null \/ InRange(q, queueIndex')
      ]_vars

C11_Witness ==
    /\ lastOp = "setQueue"
    /\ Len(queue) = 2
    /\ queueIndex = 1
    /\ currentTrack = queue[2]
    /\ currentTrack # queue[1]

\* C12: setQueue(items, startIndex) sets currentTime and duration to 0 and
\* leaves isPlaying as it was.
C12_SetQueueResetsPosition ==
    [][ \A q \in Playlists, i \in StartIndexes :
          SetQueue(q, i) =>
             currentTime' = 0 /\ duration' = 0 /\ isPlaying' = isPlaying
      ]_vars

\* C13: playNext() with repeatMode 'one' never changes queueIndex, shuffled
\* or not, whatever the queue.
C13_RepeatOneKeepsCursor ==
    [][ (lastOp' = "playNext" /\ repeatMode = "one") =>
           queueIndex' = queueIndex /\ queue' = queue
      ]_vars

C13_Witness ==
    /\ lastOp = "playNext"
    /\ repeatMode = "one"
    /\ isShuffled
    /\ Len(queue) = 2
    /\ queueIndex = 0
    /\ currentTrack = queue[1]
    /\ isPlaying

\* C14: playNext() with repeatMode 'off', shuffle off and the cursor on the
\* last index leaves queueIndex where it is.
C14_NoWrapWhenRepeatOff ==
    [][ (/\ lastOp' = "playNext"
         /\ repeatMode = "off"
         /\ ~isShuffled
         /\ queue # << >>
         /\ queueIndex = Len(queue) - 1) =>
           queueIndex' = queueIndex
      ]_vars

C14_Witness ==
    /\ lastOp = "playNext"
    /\ repeatMode = "off"
    /\ ~isShuffled
    /\ Len(queue) = 2
    /\ queueIndex = 1
    /\ currentTrack = queue[2]
    /\ isPlaying

\* C15: with shuffle off and repeatMode 'all', playNext() moves the cursor
\* from i to (i + 1) mod len(queue) and makes that element the current
\* track; on [A, B, C] from index 0 three calls visit B, C, A.
C15_SequentialAdvanceWraps ==
    [][ (/\ lastOp' = "playNext"
         /\ repeatMode = "all"
         /\ ~isShuffled
         /\ InRange(queue, queueIndex)) =>
           /\ queueIndex' = (queueIndex + 1) % Len(queue)
           /\ currentTrack' = queue[queueIndex' + 1]
           /\ queue' = queue
      ]_vars

\* [A, B, C] after B, C and A were selected in this order
C15_Witness ==
    /\ lastOp = "playNext"
    /\ repeatMode = "all"
    /\ ~isShuffled
    /\ queue = <<MediaItem(1), MediaItem(2), MediaItem(3)>>
    /\ queueIndex = 0
    /\ currentTrack = MediaItem(1)
    /\ Len(history) = 3
    /\ history[1].id = 1
    /\ history[2].id = 3
    /\ history[3].id = 2

\* C16: with shuffle on and repeatMode not 'one', playNext() on a non-empty
\* queue can select every index of the queue, the current one included,
\* selects nothing outside it, and leaves the queue as it is.
C16_ShuffleSelectsAnyIndex ==
    (isShuffled /\ repeatMode # "one" /\ queue # << >>) =>
       /\ \A k \in 0..(Len(queue) - 1) : ENABLED (PlayNext /\ queueIndex' = k)
       /\ ~ ENABLED (PlayNext /\ ~(InRange(queue, queueIndex') /\ queue' = queue))

C16_Witness ==
    /\ lastOp = "playNext"
    /\ isShuffled
    /\ repeatMode = "off"
    /\ Len(queue) = 2
    /\ queueIndex = 0
    /\ currentTrack = queue[1]
    /\ Len(history) = 1
    /\ history[1].id = currentTrack.id

\* C17: from every reachable state with a non-empty queue, playNext() ends
\* with isPlaying = true and currentTrack = queue[queueIndex] for the index
\* it selected (the end of the queue with repeatMode 'off' included).
C17_PlayNextPostState ==
    [][ (PlayNext /\ queue # << >>) =>
           /\ isPlaying'
           /\ InRange(queue', queueIndex')
           /\ currentTrack' = At(queue', queueIndex') ]_vars

\* C18: playNext() and playPrevious() on an empty queue change no field of
\* the store (currentTrack, isPlaying, currentTime and history included),
\* also when currentTrack is not null.
C18_EmptyQueueNoOp ==
    [][ ((PlayNext \/ PlayPrevious) /\ queue = << >>) =>
           UNCHANGED <<currentTrack, queue, queueIndex, isPlaying, isLoading,
                       duration, currentTime, volume, isMuted, isShuffled,
                       repeatMode, isVideoMode, isMiniPlayerVisible, history>> ]_vars

C18_Witness ==
    /\ lastOp = "playPrevious"
    /\ queue = << >>
    /\ currentTrack # Null
    /\ currentTime > RestartThreshold
    /\ history # << >>

\* C19: playPrevious() on a non-empty queue with currentTime > 3 sets
\* currentTime to 0 and leaves queueIndex and currentTrack unchanged.
C19_PreviousRestartsTrack ==
    [][ (PlayPrevious /\ queue # << >> /\ currentTime > 3) =>
           /\ currentTime' = 0
           /\ UNCHANGED <<queueIndex, currentTrack, queue>> ]_vars

C19_Witness ==
    /\ lastOp = "playPrevious"
    /\ Len(queue) = 2
    /\ queueIndex = 1
    /\ currentTrack = queue[2]
    /\ currentTime = 0
    /\ ~ isPlaying

\* C20: playPrevious() with currentTime <= 3 moves the cursor to
\* queueIndex - 1, wrapping from index 0 to len(queue) - 1, whatever
\* repeatMode and isShuffled are.
C20_PreviousStepsBack ==
    [][ (PlayPrevious /\ queue # << >> /\ currentTime <= 3) =>
           /\ queueIndex' = (IF queueIndex = 0 THEN Len(queue) - 1
                                               ELSE queueIndex - 1)
           /\ currentTrack' = At(queue, queueIndex') ]_vars

\* C21: playPrevious() on a non-empty queue leaves isPlaying = true, when it
\* moves to the previous track and when it restarts the current one
\* (currentTime > 3), also if playback was paused before the call.
C21_PreviousAlwaysPlays ==
    [][ (PlayPrevious /\ queue # << >> /\ InRange(queue, queueIndex)) =>
           isPlaying' ]_vars

\* C22: setVolume(v) stores v and sets isMuted to (v = 0) whatever the mute
\* state was: setVolume(0) mutes, a following setVolume(0.5) unmutes, also
\* after a toggleMute.
C22_SetVolumeSetsMute ==
    [][ \A v \in Volumes :
           SetVolume(v) => (volume' = v /\ isMuted' = (v = 0)) ]_vars

C22_Witness ==
    /\ lastOp = "setVolume"
    /\ volume = 50
    /\ ~ isMuted

\* C23: toggleMute() flips isMuted and changes no other field, the stored
\* volume included, so a second toggleMute() restores volume and isMuted;
\* the level handed to the playback element is 0 while muted and the
\* stored volume while unmuted.
C23_ToggleMuteKeepsVolume ==
    [][ ToggleMute =>
           /\ isMuted' = ~ isMuted
           /\ UNCHANGED <<currentTrack, queue, queueIndex, isPlaying, isLoading,
                          duration, currentTime, volume, isShuffled, repeatMode,
                          isVideoMode, isMiniPlayerVisible, history>>
           /\ effectiveVolume' = (IF isMuted THEN volume ELSE 0) ]_vars

C23_Witness ==
    /\ lastOp = "toggleMute"
    /\ ~ isMuted
    /\ volume = 50
    /\ effectiveVolume = 50

\* C24: toggleRepeat() cycles off -> all -> one -> off: repeatMode is one of
\* the three modes, three calls in a row return it to where it was, and no
\* other field changes.
C24_RepeatCycle ==
    [][ /\ repeatMode' \in {"off", "all", "one"}
        /\ nextRepeatMode(nextRepeatMode(nextRepeatMode(repeatMode'))) = repeatMode'
        /\ ToggleRepeat =>
              /\ repeatMode' = (CASE repeatMode = "off" -> "all"
                                  [] repeatMode = "all" -> "one"
                                  [] repeatMode = "one" -> "off")
              /\ UNCHANGED <<currentTrack, queue, queueIndex, isPlaying,
                             isLoading, duration, currentTime, volume, isMuted,
                             isShuffled, isVideoMode, isMiniPlayerVisible,
                             history>> ]_vars

C24_Witness ==
    /\ lastOp = "toggleRepeat"
    /\ repeatMode = "off"
    /\ currentTrack # Null

\* C25: closeMiniPlayer() sets currentTrack to null, queue to empty,
\* queueIndex to 0 and isPlaying to false, and leaves history, volume,
\* isMuted, isShuffled and repeatMode unchanged.
C25_CloseResetsSession ==
    [][ CloseMiniPlayer =>
           /\ currentTrack' = Null
           /\ queue' = << >>
           /\ queueIndex' = 0
           /\ ~ isPlaying'
           /\ UNCHANGED <<history, volume, isMuted, isShuffled, repeatMode>> ]_vars

C25_Witness ==
    /\ lastOp = "closeMiniPlayer"
    /\ history # << >>
    /\ volume = 50
    /\ isMuted
    /\ isShuffled
    /\ repeatMode = "all"

\* C26: after a restart volume, isMuted, isShuffled, repeatMode and history
\* are what they were before it, while queue is empty, currentTrack null,
\* queueIndex 0, isPlaying false and currentTime 0.
C26_RestartKeepsPreferences ==
    [][ Restart =>
           /\ UNCHANGED <<volume, isMuted, isShuffled, repeatMode, history>>
           /\ queue' = << >>
           /\ currentTrack' = Null
           /\ queueIndex' = 0
           /\ ~ isPlaying'
           /\ currentTime' = 0 ]_vars

C26_Witness ==
    /\ lastOp = "restart"
    /\ Len(history) = 2
    /\ volume = 100
    /\ isMuted
    /\ isShuffled
    /\ repeatMode = "one"

\* C27: while the seeking flag is set, a progress event of the playback
\* element does not change the store's currentTime; the seek commit clears
\* the flag and sets currentTime to value / 100 * duration.
C27_SeekSuppressesProgress ==
    [][ /\ \A p \in PlayedSeconds :
              (HandleProgress(p) /\ seeking) => currentTime' = currentTime
        /\ \A v \in SeekValues :
              HandleSeekEnd(v) =>
                 (~ seeking' /\ currentTime' * 100 = v * duration) ]_vars

C27_Witness ==
    /\ lastOp = "handleProgress while seeking"
    /\ seeking
    /\ duration = 200
    /\ currentTime = 100

\* C28: no settled state has a restriction modal shown and isPlaying true,
\* and playback that is on while a restriction modal is shown (on at the
\* time the modal opens, or resumed by play, togglePlay, playNext or
\* playTrack afterwards) does not stay on.
C28_RestrictionModalStopsPlayback ==
    /\ [](effectSettled => ~ (restrictionModalShown /\ isPlaying))
    /\ ((restrictionModalShown /\ isPlaying)
           ~> ~ (restrictionModalShown /\ isPlaying))

C28_Witness ==
    /\ lastOp = "restriction effect: pause"
    /\ showLanguageRestrictionModal
    /\ ~ isPlaying
    /\ currentTrack # Null
    /\ Len(queue) = 2

\* C29: with a queue of length >= 1, isShuffled false, repeatMode 'all' and
\* currentTime <= 3, playNext() directly followed by playPrevious() restores
\* queueIndex and currentTrack.
C29_NextPreviousRoundTrip ==
    (Len(queue) >= 1 /\ ~ isShuffled /\ repeatMode = "all" /\ currentTime <= 3) =>
       LET next == cursorAfterNext(queue, queueIndex, currentTrack,
                                   repeatMode, isShuffled, 0)
           back == cursorAfterPrevious(queue, next.queueIndex,
                                       next.currentTrack, currentTime)
       IN  /\ back.queueIndex = queueIndex
           /\ back.currentTrack = currentTrack

\* C30: the debounced auto-save loses no edit: every edit handed to the
\* auto-save waits until updateEntry has run with it. An input event of the
\* editor leaves both its content and its plainText waiting, and a waiting
\* save goes away only when its delay elapses and it is written, or for a
\* newer save of the same field of the same entry; so edits of different
\* fields within one debounce window are all written. (A reload before the
\* delay has elapsed is not the claim's case.)
C30_AutoSaveLosesNoEdit ==
    [][ /\ \A node \in EditorNodes :
             (HandleInput(node) /\ entry # << >>) =>
                \A field \in {"content", "plainText"} :
                   \E k \in 1..Len(pendingSave') :
                      /\ pendingSave'[k].live
                      /\ pendingSave'[k].field = field
        /\ lastOp' # "restart" =>
              \A k \in 1..Len(pendingSave) :
                 \/ k = 1 /\ AutoSave
                 \/ \E j \in 1..Len(pendingSave') :
                       /\ pendingSave'[j].id = pendingSave[k].id
                       /\ pendingSave'[j].field = pendingSave[k].field ]_vars

====
